---- MODULE Spec2Model ----
(***************************************************************************)
(* Model of Linkify.js, a Google Docs add-on: getSelectedText extracts the *)
(* selected text, createDriveUrls / createWikiUrl resolve a link for it,   *)
(* and insertLink applies the link to the selection or inserts linked text *)
(* at the cursor.                                                          *)
(*                                                                         *)
(* JavaScript strings are sequences of UTF-16 code units, so that          *)
(* substring, charAt, trim, encodeURI, replace and concatenation are       *)
(* computed unit by unit.  Link URLs handed to setLinkUrl and thrown       *)
(* messages are never taken apart and stay atomic strings.                 *)
(***************************************************************************)
EXTENDS Integers, Sequences, FiniteSets, TLC

VARIABLES doc, selection, cursor, result, applied

vars == <<doc, selection, cursor, result, applied>>

(***************************************************************************)
(* Bounds of the model.                                                    *)
(***************************************************************************)
MaxNodes == 6      \* elements of a nested document tree
MaxLeaves == 2     \* children of the paragraph of a flat document
MaxRanges == 2     \* range elements of a selection
MaxCalls == 2      \* insertLink invocations in one behaviour
MaxFiles == 3      \* files enumerated by a Drive search
MaxChunks == 3     \* pieces a fetched page body is assembled from

(***************************************************************************)
(* JavaScript values and string primitives.  A string is the sequence of   *)
(* its UTF-16 code units, numbers in 0..65535.                             *)
(***************************************************************************)
\* Values that are not strings are sequences no string equals, no code unit
\* being negative: undefined, null, false and the number 0.
Undefined == <<-1>>

Null == <<-2>>

False == <<-3>>

Zero == <<-4>>

\* ToBoolean on these values and on strings: the empty string is falsy too.
Truthy(v) == v \notin {Undefined, Null, False, Zero, << >>}

\* DocumentApp reports no link on a character or element as null.
NoLink == "null"

Min(a, b) == IF a < b THEN a ELSE b

Max(a, b) == IF a > b THEN a ELSE b

\* s.substring(a, b): both ends clamped to 0..length and swapped when a > b.
Substring(s, a, b) ==
    LET ca == Min(Max(a, 0), Len(s))
        cb == Min(Max(b, 0), Len(s))
    IN  SubSeq(s, Min(ca, cb) + 1, Max(ca, cb))

\* s.charAt(i): a string of one code unit, the empty string outside s.
CharAt(s, i) == IF i >= 0 /\ i < Len(s) THEN <<s[i + 1]>> ELSE << >>

\* The string " ".
Space == <<32>>

\* What trim strips: ECMAScript WhiteSpace (tab, VT, FF, space, no-break
\* space, the BOM, the Unicode space separators) and LineTerminator (LF, CR,
\* LS, PS).
WhiteSpace ==
    {9, 10, 11, 12, 13, 32, 160, 5760, 8232, 8233, 8239, 8287, 12288, 65279}
        \cup (8192..8202)

RECURSIVE TrimLeft(_)
TrimLeft(s) == IF s # << >> /\ Head(s) \in WhiteSpace THEN TrimLeft(Tail(s)) ELSE s

RECURSIVE TrimRight(_)
TrimRight(s) ==
    IF s # << >> /\ s[Len(s)] \in WhiteSpace
    THEN TrimRight(SubSeq(s, 1, Len(s) - 1)) ELSE s

\* s.trim()
Trim(s) == TrimRight(TrimLeft(s))

\* The code units encodeURI leaves as they are: letters, digits and
\* ; , / ? : @ & = + $ - _ . ! ~ * ' ( ) #
UriUnescaped ==
    (65..90) \cup (97..122) \cup (48..57)
        \cup {59, 44, 47, 63, 58, 64, 38, 61, 43, 36, 45, 95, 46, 33, 126, 42, 39, 40, 41, 35}

\* "0123456789ABCDEF"
HexDigits == <<48, 49, 50, 51, 52, 53, 54, 55, 56, 57, 65, 66, 67, 68, 69, 70>>

\* The escape %XX of one byte.
PercentByte(b) == <<37, HexDigits[(b \div 16) + 1], HexDigits[(b % 16) + 1]>>

\* The UTF-8 bytes of a code point.
Utf8(cp) ==
    IF cp < 128 THEN <<cp>>
    ELSE IF cp < 2048 THEN <<192 + (cp \div 64), 128 + (cp % 64)>>
    ELSE IF cp < 65536
         THEN <<224 + (cp \div 4096), 128 + ((cp \div 64) % 64), 128 + (cp % 64)>>
         ELSE <<240 + (cp \div 262144), 128 + ((cp \div 4096) % 64),
                128 + ((cp \div 64) % 64), 128 + (cp % 64)>>

\* The percent escapes of the UTF-8 bytes of a code point.
EncodeChar(cp) ==
    LET bytes == Utf8(cp)
        RECURSIVE Escapes(_)
        Escapes(k) == IF k > Len(bytes) THEN << >> ELSE PercentByte(bytes[k]) \o Escapes(k + 1)
    IN  Escapes(1)

\* encodeURI(s) from code unit k on: the encoded string, or malformed when a
\* surrogate has no partner (the call then throws URIError).
RECURSIVE EncodeFrom(_, _)
EncodeFrom(s, k) ==
    IF k > Len(s) THEN [malformed |-> FALSE, value |-> << >>]
    ELSE LET c == s[k]
             pair == c >= 55296 /\ c <= 56319 /\ k < Len(s)
                     /\ s[Min(k + 1, Len(s))] >= 56320 /\ s[Min(k + 1, Len(s))] <= 57343
             lone == c >= 55296 /\ c <= 57343 /\ ~pair
             first == IF c \in UriUnescaped THEN <<c>>
                      ELSE IF pair
                           THEN EncodeChar((c - 55296) * 1024 + (s[Min(k + 1, Len(s))] - 56320) + 65536)
                           ELSE EncodeChar(c)
             rest == EncodeFrom(s, IF pair THEN k + 2 ELSE k + 1)
         IN  IF lone \/ rest.malformed THEN [malformed |-> TRUE, value |-> << >>]
             ELSE [malformed |-> FALSE, value |-> first \o rest.value]

\* encodeURI(s)
EncodeURI(s) == EncodeFrom(s, 1)

\* s.replace(/pat/g, rep) for a literal pattern: matches are found left to
\* right and do not overlap; the replacement is not scanned again.
RECURSIVE ReplaceAll(_, _, _)
ReplaceAll(s, pat, rep) ==
    IF Len(s) < Len(pat) THEN s
    ELSE IF SubSeq(s, 1, Len(pat)) = pat
         THEN rep \o ReplaceAll(SubSeq(s, Len(pat) + 1, Len(s)), pat, rep)
         ELSE <<Head(s)>> \o ReplaceAll(Tail(s), pat, rep)

(***************************************************************************)
(* String literals of the source.                                          *)
(***************************************************************************)
PleaseSelect == "Please select some text."

SelectLocation == "To insert, select a location in the document"

\* the characters of  <form action=""> 
FormOpen ==
    <<60, 102, 111, 114, 109, 32, 97, 99, 116, 105, 111, 110, 61, 34, 34, 62,
      32>>

\* the characters of  <input type="radio" name="link" value="
InputOpen ==
    <<60, 105, 110, 112, 117, 116, 32, 116, 121, 112, 101, 61, 34, 114, 97, 100,
      105, 111, 34, 32, 110, 97, 109, 101, 61, 34, 108, 105, 110, 107, 34, 32,
      118, 97, 108, 117, 101, 61, 34>>

\* the characters of  " checked=true>
InputClose ==
    <<34, 32, 99, 104, 101, 99, 107, 101, 100, 61, 116, 114, 117, 101, 62>>

\* the characters of  <br>
Br ==
    <<60, 98, 114, 62>>

\* the characters of  </form>
FormClose ==
    <<60, 47, 102, 111, 114, 109, 62>>

\* the characters of  No matching results found :-(
NoResults ==
    <<78, 111, 32, 109, 97, 116, 99, 104, 105, 110, 103, 32, 114, 101, 115, 117,
      108, 116, 115, 32, 102, 111, 117, 110, 100, 32, 58, 45, 40>>

\* the characters of  http://
HttpPrefix ==
    <<104, 116, 116, 112, 58, 47, 47>>

\* the characters of  .wikipedia.org/wiki/
WikiPath ==
    <<46, 119, 105, 107, 105, 112, 101, 100, 105, 97, 46, 111, 114, 103, 47, 119,
      105, 107, 105, 47>>

\* the characters of  en
DefaultLang ==
    <<101, 110>>

\* the characters of  href="
HrefPattern ==
    <<104, 114, 101, 102, 61, 34>>

\* the characters of  nohref="
NoHref ==
    <<110, 111, 104, 114, 101, 102, 61, 34>>

(***************************************************************************)
(* Link resolver.                                                          *)
(***************************************************************************)
\* A variant that assigns url only while it is still undefined.
RECURSIVE DriveLoopFirstUrl(_, _, _, _)
DriveLoopFirstUrl(files, i, filesList, url) ==
    IF i > Len(files) THEN [filesList |-> filesList, url |-> url]
    ELSE LET file == files[i]
             opened == IF filesList = << >> THEN FormOpen ELSE filesList
         IN  DriveLoopFirstUrl(files, i + 1,
                       opened \o InputOpen \o file.url \o InputClose \o file.name \o Br,
                       IF url = Undefined THEN file.url ELSE url)

\* The while loop of createDriveUrls over the file iterator: files.next() is
\* files[i]; the loop state is filesList and url.
RECURSIVE DriveLoop(_, _, _, _)
DriveLoop(files, i, filesList, url) ==
    IF i > Len(files) THEN [filesList |-> filesList, url |-> url]
    ELSE LET file == files[i]
             opened == IF filesList = << >> THEN FormOpen ELSE filesList
         IN  DriveLoop(files, i + 1,
                       opened \o InputOpen \o file.url \o InputClose \o file.name \o Br,
                       file.url)

\* A variant without the "no results" branch: the form is always closed.
createDriveUrlsAlwaysForm(text, files) ==
    LET looped == DriveLoop(files, 1, << >>, Undefined)
    IN  [word |-> text[1], url |-> looped.url, page |-> looped.filesList \o FormClose]

\* createDriveUrls(text), with the files DriveApp.searchFiles enumerates.
createDriveUrls(text, files) ==
    LET word == text[1]
        looped == DriveLoop(files, 1, << >>, Undefined)
        filesList == IF looped.filesList = << >> THEN NoResults
                     ELSE looped.filesList \o FormClose
    IN  [word |-> word, url |-> looped.url, page |-> filesList]

\* A variant whose pattern lacks the g flag: only the first match is replaced.
NoLinksFirstOnly(content) ==
    IF Len(content) < Len(HrefPattern) \/ \A p \in 1..(Len(content) - Len(HrefPattern) + 1) :
                                            SubSeq(content, p, p + Len(HrefPattern) - 1) # HrefPattern
    THEN content
    ELSE LET first == CHOOSE p \in 1..(Len(content) - Len(HrefPattern) + 1) :
                         /\ SubSeq(content, p, p + Len(HrefPattern) - 1) = HrefPattern
                         /\ \A q \in 1..(p - 1) : SubSeq(content, q, q + Len(HrefPattern) - 1) # HrefPattern
         IN  SubSeq(content, 1, first - 1) \o NoHref
             \o SubSeq(content, first + Len(HrefPattern), Len(content))

\* The page of createWikiUrl: the response text with its links disabled.
NoLinks(content) == ReplaceAll(content, HrefPattern, NoHref)

\* What encodeURI throws on a malformed string.
UriError == "URIError: URI malformed"

\* createWikiUrl(text, lang), with the body UrlFetchApp.fetch returns: the
\* returned object, or the thrown value.
createWikiUrl(text, lang, content) ==
    LET word == Trim(text[1])
        lng == IF Truthy(lang) THEN lang ELSE DefaultLang
        encoded == EncodeURI(word)
        url == HttpPrefix \o lng \o WikiPath \o encoded.value
    IN  IF encoded.malformed
        THEN [fault |-> UriError, value |-> << >>]
        ELSE [fault |-> "", value |-> [word |-> word, url |-> url, page |-> NoLinks(content)]]

(***************************************************************************)
(* The host document.  Elements are numbered 1..n in document order (a     *)
(* parent before its children, siblings left to right); parent[1] = 0.     *)
(* A TEXT element carries its characters and one link per character; any   *)
(* other element carries one link of its own.                              *)
(***************************************************************************)
ChildrenOf(d, e) == {c \in 1..d.n : d.parent[c] = e}

\* Text and InlineImage elements have no getNumChildren method.
HasGetNumChildren(d, e) == d.type[e] \notin {"TEXT", "INLINE_IMAGE"}

getNumChildren(d, e) == Cardinality(ChildrenOf(d, e))

\* element.getChild(i), i counted from 0
getChild(d, e, i) ==
    CHOOSE c \in ChildrenOf(d, e) : Cardinality({x \in ChildrenOf(d, e) : x < c}) = i

\* Every element but an image has editAsText.
HasEditAsText(d, e) == d.type[e] # "INLINE_IMAGE"

RECURSIVE ChildrenText(_, _, _)
RECURSIVE getText(_, _)
\* element.asText().getText(): the characters of the element's text runs
getText(d, e) ==
    IF d.type[e] = "TEXT" THEN d.text[e]
    ELSE IF d.type[e] = "INLINE_IMAGE" THEN << >>
    ELSE ChildrenText(d, e, 0)

ChildrenText(d, e, i) ==
    IF i < getNumChildren(d, e)
    THEN getText(d, getChild(d, e, i)) \o ChildrenText(d, e, i + 1)
    ELSE << >>

\* element.setLinkUrl(link) on a whole element
ElementSetLinkUrl(d, e, link) ==
    IF d.type[e] = "TEXT"
    THEN [d EXCEPT !.charLink[e] = [i \in 1..Len(d.text[e]) |-> link]]
    ELSE [d EXCEPT !.elemLink[e] = link]

\* text.setLinkUrl(startOffset, endOffsetInclusive, link)
TextSetLinkUrl(d, e, startIndex, endIndex, link) ==
    [d EXCEPT !.charLink[e] =
        [i \in 1..Len(d.text[e]) |->
            IF i >= startIndex + 1 /\ i <= endIndex + 1 THEN link ELSE d.charLink[e][i]]]

NoSelection == << >>

NoCursor == [element |-> 0, offset |-> 0]

(***************************************************************************)
(* Selection extractor.                                                    *)
(***************************************************************************)
\* A variant that passes the inclusive end offset to substring unchanged.
FragmentEndExclusive(d, rangeElement) ==
    IF rangeElement.partial
    THEN <<Substring(getText(d, rangeElement.element),
                     rangeElement.startOffset, rangeElement.endOffset)>>
    ELSE IF HasEditAsText(d, rangeElement.element)
            /\ getText(d, rangeElement.element) # << >>
         THEN <<getText(d, rangeElement.element)>>
         ELSE << >>

\* One pass of the for loop of getSelectedText: what it pushes for elements[i].
Fragment(d, rangeElement) ==
    IF rangeElement.partial
    THEN <<Substring(getText(d, rangeElement.element),
                     rangeElement.startOffset, rangeElement.endOffset + 1)>>
    ELSE IF HasEditAsText(d, rangeElement.element)
            /\ getText(d, rangeElement.element) # << >>
         THEN <<getText(d, rangeElement.element)>>
         ELSE << >>

RECURSIVE TextLoop(_, _, _)
TextLoop(d, elements, i) ==
    IF i > Len(elements) THEN << >>
    ELSE Fragment(d, elements[i]) \o TextLoop(d, elements, i + 1)

\* A variant without the check for an empty array.
getSelectedTextNoEmptyCheck(d, sel) ==
    IF sel # NoSelection
    THEN [fault |-> "", value |-> TextLoop(d, sel, 1)]
    ELSE [fault |-> PleaseSelect, value |-> << >>]

\* getSelectedText(): the returned array, or the thrown value.
getSelectedText(d, sel) ==
    IF sel # NoSelection
    THEN LET text == TextLoop(d, sel, 1)
         IN  IF Len(text) = 0
             THEN [fault |-> PleaseSelect, value |-> << >>]
             ELSE [fault |-> "", value |-> text]
    ELSE [fault |-> PleaseSelect, value |-> << >>]

\* linkify(method, lang), with what the Drive search enumerates and what the
\* fetch returns: the returned value, or the thrown one.
linkify(d, sel, method, lang, files, content) ==
    LET text == getSelectedText(d, sel)
    IN  IF text.fault # "" THEN [fault |-> text.fault, value |-> << >>]
        ELSE IF method = "url" THEN createWikiUrl(text.value, lang, content)
        ELSE IF method = "searchDrive"
             THEN [fault |-> "", value |-> createDriveUrls(text.value, files)]
             ELSE [fault |-> "", value |-> Undefined]

(***************************************************************************)
(* Link applier.                                                           *)
(***************************************************************************)
RECURSIVE ChildLoop(_, _, _)
RECURSIVE setLinkOnAllChildren(_, _)
\* A variant that sets the link on a composite before descending into it.
setLinkOnAllChildrenAndSelf(d, element) ==
    IF ~HasGetNumChildren(d, element) \/ getNumChildren(d, element) = 0
    THEN <<element>>
    ELSE <<element>> \o ChildLoop(d, element, 0)

\* setLinkOnAllChildren(element, link): the elements it calls setLinkUrl on,
\* in call order.
setLinkOnAllChildren(d, element) ==
    IF ~HasGetNumChildren(d, element) \/ getNumChildren(d, element) = 0
    THEN <<element>>
    ELSE ChildLoop(d, element, 0)

ChildLoop(d, element, i) ==
    IF i < getNumChildren(d, element)
    THEN setLinkOnAllChildren(d, getChild(d, element, i)) \o ChildLoop(d, element, i + 1)
    ELSE << >>

\* One setLinkUrl call on a whole element, as insertLink records it.
WholeCall(e) == [element |-> e, partial |-> FALSE, startOffset |-> 0, endOffset |-> 0]

\* A variant that treats every range element as a whole element.
RangeCallsIgnorePartial(d, rangeElement) ==
    LET leaves == setLinkOnAllChildren(d, rangeElement.element)
    IN  [k \in 1..Len(leaves) |-> WholeCall(leaves[k])]

\* One pass of the for loop of insertLink: the setLinkUrl calls for elements[i].
RangeCalls(d, rangeElement) ==
    IF d.type[rangeElement.element] = "TEXT" /\ rangeElement.partial
    THEN <<[element |-> rangeElement.element, partial |-> TRUE,
            startOffset |-> rangeElement.startOffset,
            endOffset |-> rangeElement.endOffset]>>
    ELSE LET leaves == setLinkOnAllChildren(d, rangeElement.element)
         IN  [k \in 1..Len(leaves) |-> WholeCall(leaves[k])]

RECURSIVE RangeLoop(_, _, _)
RangeLoop(d, elements, i) ==
    IF i > Len(elements) THEN << >>
    ELSE RangeCalls(d, elements[i]) \o RangeLoop(d, elements, i + 1)

\* The document after the setLinkUrl calls, made in order.
RECURSIVE ApplyCalls(_, _, _, _)
ApplyCalls(d, calls, k, link) ==
    IF k > Len(calls) THEN d
    ELSE LET c == calls[k]
             dd == IF c.partial
                   THEN TextSetLinkUrl(d, c.element, c.startOffset, c.endOffset, link)
                   ELSE ElementSetLinkUrl(d, c.element, link)
         IN  ApplyCalls(dd, calls, k + 1, link)

\* A variant that looks at the neighbours without the two bounds checks.
PaddedTextNoBounds(surroundingText, surroundingTextOffset, newText) ==
    LET lead == IF CharAt(surroundingText, surroundingTextOffset - 1) # Space
                THEN Space \o newText ELSE newText
    IN  IF CharAt(surroundingText, surroundingTextOffset) # Space
        THEN lead \o Space ELSE lead

\* The text insertLink inserts at a cursor: newText with its padding.
PaddedText(surroundingText, surroundingTextOffset, newText) ==
    LET lead == IF surroundingTextOffset > 0
                   /\ CharAt(surroundingText, surroundingTextOffset - 1) # Space
                THEN Space \o newText ELSE newText
    IN  IF surroundingTextOffset < Len(surroundingText)
           /\ CharAt(surroundingText, surroundingTextOffset) # Space
        THEN lead \o Space ELSE lead

\* A variant that sets the text of the element instead of inserting into it.
InsertInTextOverwrite(d, e, offset, t, link) ==
    [d EXCEPT !.text[e] = t, !.charLink[e] = [i \in 1..Len(t) |-> link]]

\* cursor.insertText(t).setLinkUrl(link) inside a Text element: the characters
\* are inserted at the offset and the new run alone gets the link.
InsertInText(d, e, offset, t, link) ==
    [d EXCEPT !.text[e] = SubSeq(@, 1, offset) \o t \o SubSeq(@, offset + 1, Len(@)),
              !.charLink[e] = SubSeq(@, 1, offset) \o [i \in 1..Len(t) |-> link]
                              \o SubSeq(@, offset + 1, Len(@))]

\* cursor.insertText(t).setLinkUrl(link) in an element without text: a new
\* Text element becomes its first child, numbered e + 1.
InsertAsChild(d, e, t, link) ==
    LET old(i) == IF i > e + 1 THEN i - 1 ELSE i
        up(p) == IF p > e THEN p + 1 ELSE p
    IN  [n |-> d.n + 1,
         parent |-> [i \in 1..(d.n + 1) |-> IF i = e + 1 THEN e ELSE up(d.parent[old(i)])],
         type |-> [i \in 1..(d.n + 1) |-> IF i = e + 1 THEN "TEXT" ELSE d.type[old(i)]],
         text |-> [i \in 1..(d.n + 1) |-> IF i = e + 1 THEN t ELSE d.text[old(i)]],
         charLink |-> [i \in 1..(d.n + 1) |->
                          IF i = e + 1 THEN [k \in 1..Len(t) |-> link]
                          ELSE d.charLink[old(i)]],
         elemLink |-> [i \in 1..(d.n + 1) |-> IF i = e + 1 THEN NoLink ELSE d.elemLink[old(i)]]]

InsertAtCursor(d, cur, t, link) ==
    IF d.type[cur.element] = "TEXT"
    THEN InsertInText(d, cur.element, cur.offset, t, link)
    ELSE InsertAsChild(d, cur.element, t, link)

\* A variant without the check for a missing cursor.
insertLinkNoCursorCheck(d, sel, cur, newText, link) ==
    IF sel # NoSelection
    THEN LET calls == RangeLoop(d, sel, 1)
         IN  [fault |-> "", doc |-> ApplyCalls(d, calls, 1, link), calls |-> calls]
    ELSE IF cur = NoCursor
         THEN [fault |-> "", doc |-> d, calls |-> << >>]
         ELSE [fault |-> "",
               doc |-> InsertAtCursor(d, cur, PaddedText(getText(d, cur.element), cur.offset, newText), link),
               calls |-> << >>]

\* insertLink(newText, link): the thrown value, the document it leaves and
\* the setLinkUrl calls it made on existing elements.
insertLink(d, sel, cur, newText, link) ==
    IF sel # NoSelection
    THEN LET calls == RangeLoop(d, sel, 1)
         IN  [fault |-> "", doc |-> ApplyCalls(d, calls, 1, link), calls |-> calls]
    ELSE IF cur = NoCursor
         THEN [fault |-> SelectLocation, doc |-> d, calls |-> << >>]
         ELSE LET surroundingText == getText(d, cur.element)
                  padded == PaddedText(surroundingText, cur.offset, newText)
              IN  [fault |-> "", doc |-> InsertAtCursor(d, cur, padded, link),
                   calls |-> << >>]

(***************************************************************************)
(* Documents the model starts from.                                        *)
(***************************************************************************)
RECURSIVE AncestorsOrSelf(_, _)
AncestorsOrSelf(parent, e) ==
    IF e = 0 THEN {} ELSE {e} \cup AncestorsOrSelf(parent, parent[e])

Depth(parent, e) == Cardinality(AncestorsOrSelf(parent, e)) - 1

\* Element numbering in document order: the parent of element i is element
\* i - 1 or one of its ancestors.
DocumentOrder(n, parent) ==
    /\ parent[1] = 0
    /\ \A i \in 2..n : parent[i] \in AncestorsOrSelf(parent, i - 1)

TreeShapes(n) == {parent \in [1..n -> 0..(n - 1)] : DocumentOrder(n, parent)}

\* Container nesting of a Docs table, outermost first; Text is the innermost.
Nesting == <<"TABLE", "TABLE_ROW", "TABLE_CELL", "PARAGRAPH", "TEXT">>

Height(n, parent) == Max(0, CHOOSE h \in 0..n : /\ \A e \in 1..n : Depth(parent, e) <= h
                                                /\ \E e \in 1..n : Depth(parent, e) = h)

OldLink == "http://old"

\* A nested document: a subtree of the table nesting, every Text reading "ab",
\* nothing linked.
TreeDoc(n, parent, top) ==
    LET type == [e \in 1..n |-> Nesting[top + Depth(parent, e)]]
    IN  [n |-> n, parent |-> parent, type |-> type,
         text |-> [e \in 1..n |-> IF type[e] = "TEXT" THEN <<97, 98>> ELSE << >>],
         charLink |-> [e \in 1..n |-> IF type[e] = "TEXT" THEN <<NoLink, NoLink>> ELSE << >>],
         elemLink |-> [e \in 1..n |-> NoLink]]

TreeDocs ==
    UNION {UNION {{TreeDoc(n, parent, top) :
                      top \in {t \in 1..Len(Nesting) : t + Height(n, parent) <= Len(Nesting)}} :
                  parent \in TreeShapes(n)} : n \in 1..MaxNodes}

\* What a paragraph holds: text runs and inline images.
LeafContents == {[type |-> "TEXT", text |-> <<97, 98, 32, 99>>],
                 [type |-> "TEXT", text |-> <<32>>],
                 [type |-> "INLINE_IMAGE", text |-> << >>]}

\* A flat document: one paragraph and its children, the text either unlinked
\* or linked to OldLink.
FlatDoc(leaves, link) ==
    LET n == Len(leaves) + 1
    IN  [n |-> n,
         parent |-> [e \in 1..n |-> IF e = 1 THEN 0 ELSE 1],
         type |-> [e \in 1..n |-> IF e = 1 THEN "PARAGRAPH" ELSE leaves[e - 1].type],
         text |-> [e \in 1..n |-> IF e = 1 THEN << >> ELSE leaves[e - 1].text],
         charLink |-> [e \in 1..n |-> IF e = 1 THEN << >>
                                       ELSE [i \in 1..Len(leaves[e - 1].text) |-> link]],
         elemLink |-> [e \in 1..n |-> NoLink]]

FlatDocs ==
    UNION {{FlatDoc(leaves, link) : leaves \in [1..k -> LeafContents], link \in {NoLink, OldLink}} :
           k \in 0..MaxLeaves}

Whole(e) == [element |-> e, partial |-> FALSE, startOffset |-> 0, endOffset |-> 0]

\* A partial range element covers part of a Text, never all of it.
Partials(d, e) ==
    IF d.type[e] # "TEXT" THEN {}
    ELSE {[element |-> e, partial |-> TRUE, startOffset |-> s, endOffset |-> t] :
             <<s, t>> \in {st \in (0..(Len(d.text[e]) - 1)) \X (0..(Len(d.text[e]) - 1)) :
                              /\ st[1] <= st[2]
                              /\ st[2] - st[1] + 1 < Len(d.text[e])}}

RangeElements(d) == UNION {{Whole(e)} \cup Partials(d, e) : e \in 1..d.n}

\* The range elements of a selection come in document order and none lies
\* inside another.
Selections(d) ==
    UNION {{sel \in [1..k -> RangeElements(d)] :
               \A i \in 1..(k - 1) :
                  /\ sel[i].element < sel[i + 1].element
                  /\ sel[i].element \notin AncestorsOrSelf(d.parent, sel[i + 1].element)} :
           k \in 1..MaxRanges}

\* A cursor sits between two characters of a Text, or in an empty element.
Cursors(d) ==
    UNION {IF d.type[e] = "TEXT"
           THEN {[element |-> e, offset |-> o] : o \in 0..Len(d.text[e])}
           ELSE IF d.type[e] = "PARAGRAPH" /\ ChildrenOf(d, e) = {}
                THEN {[element |-> e, offset |-> 0]}
                ELSE {} : e \in 1..d.n}

NoResult == [op |-> "none"]

InitTree ==
    /\ doc \in TreeDocs
    /\ selection \in {sel \in Selections(doc) : \A i \in 1..Len(sel) : ~sel[i].partial}
    /\ cursor = NoCursor
    /\ result = NoResult
    /\ applied = << >>

InitFlat ==
    /\ doc \in FlatDocs
    /\ \/ selection \in Selections(doc) /\ cursor = NoCursor
       \/ selection = NoSelection /\ cursor \in Cursors(doc) \cup {NoCursor}
    /\ result = NoResult
    /\ applied = << >>

Init == InitTree \/ InitFlat

(***************************************************************************)
(* Operations on the document.                                             *)
(***************************************************************************)
GetSelectedText ==
    /\ result' = [op |-> "getSelectedText"] @@ getSelectedText(doc, selection)
    /\ UNCHANGED <<doc, selection, cursor, applied>>

\* What the sidebar passes to insertLink: the text and the link.
LinkRequests == {[newText |-> <<107>>, link |-> "http://u1"],
                 [newText |-> <<108, 107>>, link |-> "http://u2"]}

\* Where the host leaves the cursor after an insertion is not decided by the
\* add-on: before or after the inserted run.
CursorsAfter(d, cur, after) ==
    IF cur = NoCursor THEN {NoCursor}
    ELSE IF d.type[cur.element] = "TEXT"
         THEN {cur, [cur EXCEPT !.offset = @ + Len(after.text[cur.element]) - Len(d.text[cur.element])]}
         ELSE {[element |-> cur.element + 1, offset |-> 0],
               [element |-> cur.element + 1, offset |-> Len(after.text[cur.element + 1])]}

InsertLink ==
    /\ Len(applied) < MaxCalls
    /\ \E request \in LinkRequests :
          LET newText == request.newText
              link == request.link
              r == insertLink(doc, selection, cursor, newText, link)
          IN  /\ doc' = r.doc
              /\ cursor' \in CursorsAfter(doc, cursor, r.doc)
              /\ applied' = Append(applied,
                    [newText |-> newText, link |-> link, cursor |-> cursor,
                     before |-> doc, after |-> r.doc, fault |-> r.fault, calls |-> r.calls])
    /\ UNCHANGED <<selection, result>>

Next == GetSelectedText \/ InsertLink

Spec == Init /\ [][Next]_vars

(***************************************************************************)
(* Link resolution: linkify on a paragraph holding one word, with the      *)
(* files and the page body drawn from bounded sets.                        *)
(***************************************************************************)
\* What the paragraph holds: a word between a tab and a no-break space,
\* "a{" e-acute space and a surrogate pair, a lone surrogate, a space, an image.
ResolverLeaves == {[type |-> "TEXT", text |-> <<9, 67, 97, 116, 160>>],
                   [type |-> "TEXT", text |-> <<97, 123, 233, 32, 55357, 56832>>],
                   [type |-> "TEXT", text |-> <<55357>>],
                   [type |-> "TEXT", text |-> <<32>>],
                   [type |-> "INLINE_IMAGE", text |-> << >>]}

ResolverDocs == {FlatDoc(<< >>, NoLink)} \cup {FlatDoc(<<leaf>>, NoLink) : leaf \in ResolverLeaves}

\* Files named "a" and "b c", with URLs "u1" and "u2".
Files == {[name |-> <<97>>, url |-> <<117, 49>>], [name |-> <<97>>, url |-> <<117, 50>>],
          [name |-> <<98, 32, 99>>, url |-> <<117, 49>>]}

FileLists == UNION {[1..k -> Files] : k \in 0..MaxFiles}

\* The lang argument: missing, null, false, 0, "" or "de".
Langs == {Undefined, Null, False, Zero, << >>, <<100, 101>>}

\* Pieces of a page body: href=" and parts of it, "no", "<a ".
Chunks == {HrefPattern, <<104>>, <<114, 101, 102, 61, 34>>, <<110, 111>>, <<60, 97, 32>>}

RECURSIVE Flatten(_)
Flatten(pieces) == IF pieces = << >> THEN << >> ELSE Head(pieces) \o Flatten(Tail(pieces))

Contents == {Flatten(pieces) : pieces \in UNION {[1..k -> Chunks] : k \in 0..MaxChunks}}

\* A call of linkify with what the services answer; the search is only made
\* for "searchDrive" and the fetch only for "url".
LinkifyRequests ==
    {[method |-> "url", lang |-> lang, files |-> << >>, content |-> content] :
        lang \in Langs, content \in Contents}
    \cup {[method |-> "searchDrive", lang |-> Undefined, files |-> files, content |-> << >>] :
             files \in FileLists}
    \cup {[method |-> "other", lang |-> Undefined, files |-> << >>, content |-> << >>]}

InitResolver ==
    /\ doc \in ResolverDocs
    /\ selection \in {NoSelection} \cup {sel \in Selections(doc) : \A i \in 1..Len(sel) : ~sel[i].partial}
    /\ cursor = NoCursor
    /\ result = NoResult
    /\ applied = << >>

Linkify ==
    /\ result = NoResult
    /\ \E request \in LinkifyRequests :
          result' = [op |-> "linkify", method |-> request.method, lang |-> request.lang,
                     files |-> request.files, content |-> request.content]
                    @@ linkify(doc, selection, request.method, request.lang,
                               request.files, request.content)
    /\ UNCHANGED <<doc, selection, cursor, applied>>

NextResolver == Linkify

SpecResolver == InitResolver /\ [][NextResolver]_vars

(***************************************************************************)
(* Vocabulary of the properties, defined from the document itself and from *)
(* the returned strings rather than from the operators above.              *)
(***************************************************************************)
RECURSIVE TextRuns(_, _, _)
TextRuns(d, e, k) ==
    IF k > d.n THEN << >>
    ELSE (IF d.type[k] = "TEXT" /\ e \in AncestorsOrSelf(d.parent, k) THEN d.text[k] ELSE << >>)
         \o TextRuns(d, e, k + 1)

\* The characters of element e: those of the Text elements at or below it,
\* in document order.
OwnText(d, e) == TextRuns(d, e, 1)

\* The elements at or below e that have no children.
LeavesUnder(d, e) ==
    {l \in 1..d.n : e \in AncestorsOrSelf(d.parent, l) /\ ChildrenOf(d, l) = {}}

\* The positions at which pat occurs in s.
Occurrences(s, pat) ==
    {p \in 1..(Len(s) - Len(pat) + 1) : SubSeq(s, p, p + Len(pat) - 1) = pat}

\* The i-th smallest member of a set of positions.
Nth(positions, i) == CHOOSE p \in positions : Cardinality({q \in positions : q < p}) = i - 1

\* The first position at or after p at which pat occurs in s.
FirstFrom(s, pat, p) == CHOOSE q \in Occurrences(s, pat) : q >= p /\ \A x \in Occurrences(s, pat) : x >= p => q <= x

\* the characters of  <input type="radio"
RadioTag ==
    <<60, 105, 110, 112, 117, 116, 32, 116, 121, 112, 101, 61, 34, 114, 97, 100,
      105, 111, 34>>

\* the characters of   value="
ValueAttribute ==
    <<32, 118, 97, 108, 117, 101, 61, 34>>

\* the characters of   checked
CheckedAttribute ==
    <<32, 99, 104, 101, 99, 107, 101, 100>>

\* The radio inputs of a page, by the position of their tags.
RadioInputs(page) == Occurrences(page, RadioTag)

\* The tag that opens at p, up to its closing bracket.
TagAt(page, p) == SubSeq(page, p, FirstFrom(page, <<62>>, p))

\* The value attribute of the tag that opens at p.
ValueAt(page, p) ==
    LET from == FirstFrom(page, ValueAttribute, p) + Len(ValueAttribute)
    IN  SubSeq(page, from, FirstFrom(page, <<34>>, from) - 1)

\* The label shown after the tag that opens at p, up to the line break.
LabelAt(page, p) ==
    LET from == FirstFrom(page, <<62>>, p) + 1
    IN  SubSeq(page, from, FirstFrom(page, Br, from) - 1)

\* Whether the tag that opens at p carries the checked attribute.
CheckedAt(page, p) == Occurrences(TagAt(page, p), CheckedAttribute) # {}

\* The insertLink invocations made so far, by position in the history.
Invocations == 1..Len(applied)

(***************************************************************************)
(* C1.  For a selection that yields text, getSelectedText returns the      *)
(* fragments in range-element order: a partial range element gives the     *)
(* characters of its text from the start offset to the end offset          *)
(* inclusive, a whole range element gives its full text when it can be     *)
(* edited as text and the text is not empty, and nothing otherwise.        *)
(* (insertLink leaves the text under a selection as it is, so the          *)
(* fragments are those of the document at the time of the call.)           *)
(***************************************************************************)
ExpectedFragment(d, r) ==
    IF r.partial
    THEN <<[k \in 1..(r.endOffset - r.startOffset + 1) |-> OwnText(d, r.element)[r.startOffset + k]]>>
    ELSE IF HasEditAsText(d, r.element) /\ OwnText(d, r.element) # << >>
         THEN <<OwnText(d, r.element)>>
         ELSE << >>

ExpectedFragments(d, sel) == Flatten([i \in 1..Len(sel) |-> ExpectedFragment(d, sel[i])])

C1_FragmentsInOrder ==
    (result.op = "getSelectedText" /\ selection # NoSelection
        /\ ExpectedFragments(doc, selection) # << >>)
    => (result.fault = "" /\ result.value = ExpectedFragments(doc, selection))

\* A partial range and a skipped image selected together: one fragment, a
\* proper part of the text.
C1_Witness ==
    /\ result.op = "getSelectedText"
    /\ Len(selection) = 2
    /\ selection[1].partial /\ selection[1].startOffset = 1 /\ selection[1].endOffset = 2
    /\ doc.type[selection[2].element] = "INLINE_IMAGE"
    /\ result.value = << <<98, 32>> >>

(***************************************************************************)
(* C6.  getSelectedText throws "Please select some text." exactly when     *)
(* there is no selection or no range element yields text; otherwise it     *)
(* returns a non-empty array.                                              *)
(***************************************************************************)
YieldsNothing(d, r) ==
    ~r.partial /\ (~HasEditAsText(d, r.element) \/ OwnText(d, r.element) = << >>)

C6_FaultExactly ==
    result.op = "getSelectedText"
    => /\ result.fault \in {"", PleaseSelect}
       /\ result.fault = PleaseSelect
            <=> (\/ selection = NoSelection
                 \/ \A i \in 1..Len(selection) : YieldsNothing(doc, selection[i]))
       /\ result.fault = "" => result.value # << >>

\* A selection over a single image.
C6_Witness ==
    /\ result.op = "getSelectedText"
    /\ Len(selection) = 1
    /\ doc.type[selection[1].element] = "INLINE_IMAGE"
    /\ result.fault = PleaseSelect

(***************************************************************************)
(* C10.  Under a selection, a partial range element of a Text gets the     *)
(* link on exactly the characters from its start offset to its end offset  *)
(* inclusive; the other characters of that Text keep their link; the text  *)
(* of the document is unchanged.                                           *)
(***************************************************************************)
C10_PartialRange ==
    \A c \in Invocations :
        selection # NoSelection =>
            /\ applied[c].after.text = applied[c].before.text
            /\ applied[c].after.n = applied[c].before.n
            /\ \A i \in 1..Len(selection) :
                  LET r == selection[i] IN
                  (r.partial /\ applied[c].before.type[r.element] = "TEXT") =>
                      \A k \in 1..Len(applied[c].before.text[r.element]) :
                          applied[c].after.charLink[r.element][k] =
                              IF r.startOffset + 1 <= k /\ k <= r.endOffset + 1
                              THEN applied[c].link
                              ELSE applied[c].before.charLink[r.element][k]

\* A middle range of a Text linked to OldLink: new link inside, old outside.
C10_Witness ==
    /\ Len(applied) = 1
    /\ Len(selection) = 1
    /\ selection[1].partial /\ selection[1].startOffset = 1 /\ selection[1].endOffset = 2
    /\ applied[1].after.charLink[selection[1].element]
         = <<OldLink, applied[1].link, applied[1].link, OldLink>>

(***************************************************************************)
(* C4.  For the range elements that are not partial Text ranges, the link  *)
(* is set on every leaf at or below them, once each, in depth-first order  *)
(* with children in index order (document order), and on no element that   *)
(* has children; every insertLink step is computed, so the recursion ends. *)
(***************************************************************************)
IsWholeCall(call) == ~call.partial

WholeTargets(sel) == {sel[i].element : i \in {j \in 1..Len(sel) : ~sel[j].partial}}

C4_LeavesOnce ==
    \A c \in Invocations :
        selection # NoSelection =>
            LET d == applied[c].before
                whole == SelectSeq(applied[c].calls, IsWholeCall)
                leaves == UNION {LeavesUnder(d, e) : e \in WholeTargets(selection)}
            IN  /\ \A k \in 1..(Len(whole) - 1) : whole[k].element < whole[k + 1].element
                /\ {whole[k].element : k \in 1..Len(whole)} = leaves
                /\ \A e \in 1..d.n :
                      ChildrenOf(d, e) # {} => applied[c].after.elemLink[e] = d.elemLink[e]
                /\ \A l \in leaves :
                      IF d.type[l] = "TEXT"
                      THEN \A k \in 1..Len(d.text[l]) : applied[c].after.charLink[l][k] = applied[c].link
                      ELSE applied[c].after.elemLink[l] = applied[c].link

\* A composite with three children, one of which has two children: four
\* setLinkUrl calls, all on leaves.
C4_Witness ==
    /\ Len(applied) = 1
    /\ selection = <<Whole(1)>>
    /\ getNumChildren(doc, 1) = 3
    /\ \E e \in ChildrenOf(doc, 1) : getNumChildren(doc, e) = 2
    /\ doc.n = 6
    /\ Len(applied[1].calls) = 4
    /\ \E l \in LeavesUnder(doc, 1) : doc.type[l] = "TEXT"

(***************************************************************************)
(* C5.  At a bare cursor the inserted text is newText with one space in    *)
(* front iff a character precedes the insertion point and is not a space,  *)
(* and one space behind iff a character follows it and is not a space; it  *)
(* is inserted at the cursor and the link covers exactly the inserted run. *)
(***************************************************************************)
SpaceIf(b) == IF b THEN <<32>> ELSE << >>

C5_CursorPadding ==
    \A c \in Invocations :
        (selection = NoSelection /\ applied[c].cursor # NoCursor) =>
            LET d == applied[c].before
                a == applied[c].after
                e == applied[c].cursor.element
                o == applied[c].cursor.offset
                inText == d.type[e] = "TEXT"
                s == IF inText THEN d.text[e] ELSE << >>
                links == IF inText THEN d.charLink[e] ELSE << >>
                target == IF inText THEN e ELSE e + 1
                inserted == SpaceIf(o >= 1 /\ s[o] # 32) \o applied[c].newText
                            \o SpaceIf(o < Len(s) /\ s[o + 1] # 32)
            IN  /\ applied[c].fault = ""
                /\ a.type[target] = "TEXT"
                /\ a.text[target] = SubSeq(s, 1, o) \o inserted \o SubSeq(s, o + 1, Len(s))
                /\ a.charLink[target] = SubSeq(links, 1, o)
                                         \o [k \in 1..Len(inserted) |-> applied[c].link]
                                         \o SubSeq(links, o + 1, Len(s))
                /\ inText => \A x \in (1..d.n) \ {e} :
                                /\ a.text[x] = d.text[x]
                                /\ a.charLink[x] = d.charLink[x]
                                /\ a.elemLink[x] = d.elemLink[x]

\* Between "a" and "b": both paddings applied.
C5_Witness ==
    /\ Len(applied) = 1
    /\ selection = NoSelection
    /\ applied[1].cursor = [element |-> 2, offset |-> 1]
    /\ applied[1].newText = <<107>>
    /\ applied[1].after.text[2] = <<97, 32, 107, 32, 98, 32, 99>>
    /\ applied[1].after.charLink[2]
         = <<OldLink, applied[1].link, applied[1].link, applied[1].link, OldLink, OldLink, OldLink>>

(***************************************************************************)
(* C9.  With neither a selection nor a cursor, insertLink throws "To       *)
(* insert, select a location in the document" and changes nothing: no text *)
(* inserted, no link set.                                                  *)
(***************************************************************************)
C9_NoLocation ==
    \A c \in Invocations :
        (selection = NoSelection /\ applied[c].cursor = NoCursor) =>
            /\ applied[c].fault = SelectLocation
            /\ applied[c].after = applied[c].before
            /\ applied[c].calls = << >>

C9_Witness ==
    /\ Len(applied) = 1
    /\ selection = NoSelection
    /\ applied[1].cursor = NoCursor
    /\ applied[1].fault = SelectLocation
    /\ doc.n = 3

(***************************************************************************)
(* C2.  Calling insertLink twice with the same text and link: under a      *)
(* selection (partial Text range or whole element) the second call leaves  *)
(* the document as the first left it; at a bare cursor the second call     *)
(* inserts the padded text again, so the document differs.                 *)
(***************************************************************************)
SameRequest(c) ==
    /\ applied[c].newText = applied[c + 1].newText
    /\ applied[c].link = applied[c + 1].link

RECURSIVE CountChars(_, _)
CountChars(d, k) == IF k > d.n THEN 0 ELSE Len(d.text[k]) + CountChars(d, k + 1)

\* C2 as stated: the second call never changes the document.
C2_IdempotentEverywhere ==
    \A c \in 1..(Len(applied) - 1) :
        SameRequest(c) => applied[c + 1].after = applied[c].after

C2_IdempotentUnderSelection ==
    \A c \in 1..(Len(applied) - 1) :
        SameRequest(c) =>
            /\ (selection # NoSelection \/ applied[c].cursor = NoCursor)
                  => applied[c + 1].after = applied[c].after
            /\ (selection = NoSelection /\ applied[c].cursor # NoCursor)
                  => CountChars(applied[c + 1].after, 1)
                       >= CountChars(applied[c].after, 1) + Len(applied[c].newText)

\* The same link applied twice to a partial range and a whole element.
C2_Witness ==
    /\ Len(applied) = 2
    /\ SameRequest(1)
    /\ Len(selection) = 2
    /\ selection[1].partial
    /\ ~selection[2].partial
    /\ applied[2].after = applied[1].after
    /\ applied[1].after # applied[1].before

(***************************************************************************)
(* C3.  The page createWikiUrl returns is the fetched body with every      *)
(* href=" turned into nohref=": it holds as many occurrences of href=" as  *)
(* the body, each directly preceded by "no".                               *)
(***************************************************************************)
\* The linkify call returned from createWikiUrl.
WikiReturned == result.op = "linkify" /\ result.method = "url" /\ result.fault = ""

\* C3 as stated: the page holds no href=" at all.
C3_NoHrefSubstring ==
    WikiReturned => Occurrences(result.value.page, HrefPattern) = {}

C3_HrefsPrefixed ==
    WikiReturned =>
        LET page == result.value.page
        IN  /\ Cardinality(Occurrences(page, HrefPattern))
                 = Cardinality(Occurrences(result.content, HrefPattern))
            /\ \A p \in Occurrences(page, HrefPattern) :
                  p >= 3 /\ page[p - 2] = 110 /\ page[p - 1] = 111
            /\ Len(page) = Len(result.content)
                 + 2 * Cardinality(Occurrences(result.content, HrefPattern))

\* A body with two links, the second already behind "no".
C3_Witness ==
    /\ WikiReturned
    /\ result.content = HrefPattern \o <<110, 111>> \o HrefPattern
    /\ result.value.page = NoHref \o <<110, 111>> \o NoHref

(***************************************************************************)
(* C7.  For N >= 1 enumerated files the page holds exactly N radio inputs, *)
(* one per file in enumeration order (its URL as value, its name as        *)
(* label), url is the URL of the last file, and every radio input, the     *)
(* last one included, carries checked=true.                                *)
(***************************************************************************)
\* The linkify call went to createDriveUrls: text was selected.
DriveCalled ==
    result.op = "linkify" /\ result.method = "searchDrive"
        /\ getSelectedText(doc, selection).fault = ""

RadiosPerFile(page, files) ==
    /\ Cardinality(RadioInputs(page)) = Len(files)
    /\ \A i \in 1..Len(files) :
          /\ ValueAt(page, Nth(RadioInputs(page), i)) = files[i].url
          /\ LabelAt(page, Nth(RadioInputs(page), i)) = files[i].name

\* C7 as stated: the last radio input is the one marked checked.
C7_OnlyLastChecked ==
    (DriveCalled /\ Len(result.files) >= 1) =>
        /\ result.fault = ""
        /\ RadiosPerFile(result.value.page, result.files)
        /\ result.value.url = result.files[Len(result.files)].url
        /\ \A i \in 1..Len(result.files) :
              CheckedAt(result.value.page, Nth(RadioInputs(result.value.page), i))
                 <=> i = Len(result.files)

C7_AllChecked ==
    (DriveCalled /\ Len(result.files) >= 1) =>
        /\ result.fault = ""
        /\ RadiosPerFile(result.value.page, result.files)
        /\ result.value.url = result.files[Len(result.files)].url
        /\ \A i \in 1..Len(result.files) :
              CheckedAt(result.value.page, Nth(RadioInputs(result.value.page), i))

\* Three files, the last with another URL than the first.
C7_Witness ==
    /\ DriveCalled
    /\ Len(result.files) = 3
    /\ result.files[1].url # result.files[3].url
    /\ result.value.url = result.files[3].url
    /\ Cardinality(RadioInputs(result.value.page)) = 3

(***************************************************************************)
(* C8.  For zero enumerated files createDriveUrls returns normally, with   *)
(* the page "No matching results found :-(" and url undefined.             *)
(***************************************************************************)
C8_NoResults ==
    (DriveCalled /\ result.files = << >>) =>
        /\ result.fault = ""
        /\ result.value.page = NoResults
        /\ result.value.url = Undefined
        /\ result.value.word = getSelectedText(doc, selection).value[1]

C8_Witness ==
    /\ DriveCalled
    /\ result.files = << >>
    /\ result.value.page = NoResults

====
